---- MODULE Spec2Model ----
(***************************************************************************)
(* CRM lead pipeline: the importer (updated_transfer_6.py) and the         *)
(* one-click automation script (automation.py: Ownership Router followed   *)
(* by the Notification Engine), both talking to the CRM through            *)
(* odoo_rpc.call.                                                          *)
(*                                                                         *)
(* Text values on which the code does character work (strip, lower,        *)
(* upper, startswith) are sequences of one-character strings; a many2one   *)
(* value is <<id, display name>> as search_read returns it, and False is   *)
(* the empty tuple.                                                        *)
(***************************************************************************)
EXTENDS Integers, Sequences, FiniteSets, TLC

\* ------------------------------------------------------------------------
\* Bounds
\* ------------------------------------------------------------------------
MaxLeads == 2      \* leads in the CRM
MaxRuns == 2       \* runs of automation.py
MaxRows == 2       \* complete rows of the CSV
MaxMails == 2      \* mail.mail records the mail server accepts
MaxHeaders == 3    \* columns of the CSV

\* ------------------------------------------------------------------------
\* Python string helpers, on sequences of characters
\* ------------------------------------------------------------------------
UpperAlpha == <<"A", "B", "C", "D", "E", "F", "G", "H", "I", "J", "K", "L", "M", "N", "O", "P", "Q", "R", "S", "T", "U", "V", "W", "X", "Y", "Z">>
LowerAlpha == <<"a", "b", "c", "d", "e", "f", "g", "h", "i", "j", "k", "l", "m", "n", "o", "p", "q", "r", "s", "t", "u", "v", "w", "x", "y", "z">>

IsSpace(c) == c \in {" ", "\t", "\n"}

lower_char(c) ==
    IF \E i \in DOMAIN UpperAlpha : UpperAlpha[i] = c
    THEN LowerAlpha[CHOOSE i \in DOMAIN UpperAlpha : UpperAlpha[i] = c]
    ELSE c

upper_char(c) ==
    IF \E i \in DOMAIN LowerAlpha : LowerAlpha[i] = c
    THEN UpperAlpha[CHOOSE i \in DOMAIN LowerAlpha : LowerAlpha[i] = c]
    ELSE c

lower(s) == [i \in 1..Len(s) |-> lower_char(s[i])]
upper(s) == [i \in 1..Len(s) |-> upper_char(s[i])]

RECURSIVE lstrip(_)
lstrip(s) == IF s # <<>> /\ IsSpace(Head(s)) THEN lstrip(Tail(s)) ELSE s

RECURSIVE rstrip(_)
rstrip(s) ==
    IF s # <<>> /\ IsSpace(s[Len(s)]) THEN rstrip(SubSeq(s, 1, Len(s) - 1)) ELSE s

strip(s) == rstrip(lstrip(s))

startswith(s, p) == Len(s) >= Len(p) /\ SubSeq(s, 1, Len(p)) = p

False == <<>>

\* ------------------------------------------------------------------------
\* automation.py: configuration
\* ------------------------------------------------------------------------
SOURCE_TO_EMAIL ==
    ( <<"i", "n", "s", "t", "a", "g", "r", "a", "m">> :> "ankit@example.com"
   @@ <<"f", "a", "c", "e", "b", "o", "o", "k">> :> "ankit@example.com"
   @@ <<"l", "i", "n", "k", "e", "d", "i", "n">> :> "jayesh@example.com"
   @@ <<"t", "w", "i", "t", "t", "e", "r">> :> "sujal@example.com"
   @@ <<"w", "e", "b", "s", "i", "t", "e">> :> "sujal@example.com"
   @@ <<"c", "o", "n", "f", "e", "r", "e", "n", "c", "e">> :> "shalini@example.com"
   @@ <<"e", "v", "e", "n", "t">> :> "shalini@example.com"
   @@ <<"c", "o", "l", "d", " ", "c", "a", "l", "l">> :> "jayesh@example.com"
   @@ <<"w", "e", "b", "i", "n", "a", "r">> :> "shalini@example.com"
   @@ <<"r", "e", "f", "e", "r", "r", "a", "l">> :> "jayesh@example.com" )

\* SOURCE_TO_EMAIL.get(src_name): the login, or None (here "")
SOURCE_TO_EMAIL_get(src_name) ==
    IF src_name \in DOMAIN SOURCE_TO_EMAIL THEN SOURCE_TO_EMAIL[src_name] ELSE ""

\* The res.users table the script searches: login -> <<id, display name>>.
\* shalini@example.com has no account.
res_users ==
    ( "ankit@example.com"  :> <<6, "Ankit">>
   @@ "jayesh@example.com" :> <<7, "Jayesh">>
   @@ "sujal@example.com"  :> <<8, "Sujal">> )

\* odoo.call("res.users", "search", [[("login", "=", login)]], {"limit": 1})
res_users_search(login) ==
    IF login \in DOMAIN res_users THEN <<res_users[login][1]>> ELSE <<>>

\* display name of a user id, as the CRM renders the many2one
user_display(uid) ==
    LET l == CHOOSE l \in DOMAIN res_users : res_users[l][1] = uid
    IN  res_users[l][2]

\* States the mail server can leave a mail.mail record in after send()
MailStates == {"sent", "outgoing", "bounced"}

\* ------------------------------------------------------------------------
\* State
\* ------------------------------------------------------------------------
VARIABLES
    leads,            \* crm.lead table: id -> record
    mails,            \* mail.mail table, in creation order
    pc,               \* position of the automation script
    runs,             \* number of runs of automation.py started so far
    unowned,          \* result of the un-owned search_read (lines 68-70)
    ready_leads,      \* result of the unsent search_read (lines 111-116)
    idx,              \* index of the current loop iteration
    owner_writes,     \* lead ids whose user_id write was issued in this run
    owned_at_select,  \* lead ids that had an owner when `unowned` was read
    unsent_at_start,  \* ids of the leads with an e-mail address and an unticked flag when the run started
    assigned_before,  \* lead ids given an owner by an earlier run
    dispatch,         \* per-record log of the notification loop of this run
    ipc,              \* position of the importer script
    rows,             \* df_ok.to_dict("records"): the complete rows, as read
    recs,             \* the same dicts, as the importer mutates them in place
    bucket,           \* raw product name -> rec_list, in insertion order
    bidx,             \* index of the current bucket
    ridx,             \* index of the current record in the bucket's rec_list
    payloads,         \* payloads appended so far
    matcher_calls,    \* log of the best_match_product calls of this run
    utm,              \* utm.campaign / utm.medium / utm.source tables
    stamps,           \* new_stage_id and sales_team_id as looked up
    create_calls,     \* payload lists passed to crm.lead create
    imported,         \* records the CRM created from this run
    audit,            \* whether imported_new_stage.csv was written
    abort_cause,      \* why the importer run ended early ("" when it did not)
    hpc,              \* position of the importer in its header mapping
    headers,          \* df_orig.columns
    hidx,             \* index of the header the col_map loop is at
    schema,           \* ir.model.fields of crm.lead: field name -> label
    CRM_LEAD_MODEL_ID, \* the cached id of the crm.lead model (<<>> for None)
    field_cache,      \* _field_cache
    tech_names,       \* tech_names
    label_map,        \* label_map
    col_map,          \* col_map, as the list of its items
    field_creates,    \* log of the ir.model.fields create calls
    ensured           \* names for which ensure_field has returned

autoVars == <<leads, mails, pc, runs, unowned, ready_leads, idx,
              owner_writes, owned_at_select, unsent_at_start,
              assigned_before, dispatch>>

impVars == <<ipc, rows, recs, bucket, bidx, ridx, payloads, matcher_calls,
             utm, stamps, create_calls, imported, audit, abort_cause>>

hdrVars == <<hpc, headers, hidx, schema, CRM_LEAD_MODEL_ID, field_cache,
             tech_names, label_map, col_map, field_creates, ensured>>

vars == <<autoVars, impVars, hdrVars>>

LeadIds == 1..MaxLeads

\* Lead rows the CRM may hold when the script is started.
Instagram_raw == <<" ", "I", "n", "s", "t", "a", "g", "r", "a", "m", " ">>
Linkedin_raw  == <<"L", "I", "N", "K", "E", "D", "I", "N">>
Event_raw     == <<"E", "v", "e", "n", "t">>
Billboard_raw == <<"B", "i", "l", "l", "b", "o", "a", "r", "d">>

LeadProfiles ==
    { [source_id |-> <<1, Instagram_raw>>, user_id |-> False,
       email_from |-> "a@x.com", x_product_id |-> <<3, "Shampoo">>,
       x_bad_product_name |-> "", x_email_sent |-> FALSE],
      [source_id |-> <<3, Event_raw>>, user_id |-> False,
       email_from |-> "b@x.com", x_product_id |-> False,
       x_bad_product_name |-> "Xyzzy", x_email_sent |-> FALSE],
      [source_id |-> <<4, Billboard_raw>>, user_id |-> False,
       email_from |-> "", x_product_id |-> False,
       x_bad_product_name |-> "Xyzzy", x_email_sent |-> FALSE],
      [source_id |-> <<2, Linkedin_raw>>, user_id |-> <<8, "Sujal">>,
       email_from |-> "", x_product_id |-> <<3, "Shampoo">>,
       x_bad_product_name |-> "", x_email_sent |-> FALSE],
      [source_id |-> False, user_id |-> False,
       email_from |-> "e@x.com", x_product_id |-> False,
       x_bad_product_name |-> "", x_email_sent |-> TRUE] }

\* ids of a set of leads, as the ascending list a search_read returns
RECURSIVE SortedIds(_)
SortedIds(S) ==
    IF S = {} THEN <<>>
    ELSE LET m == CHOOSE x \in S : \A y \in S : x <= y
         IN  <<m>> \o SortedIds(S \ {m})

\* a search_read result: the records with the matching ids, each with its id
search_read(table, matching) ==
    LET ids == SortedIds(matching)
    IN  [k \in 1..Len(ids) |-> [id |-> ids[k]] @@ table[ids[k]]]

\* the importer is not mapping headers
HeadersOff ==
    /\ hpc = "off"
    /\ headers = <<>>
    /\ hidx = 1
    /\ schema = <<>>
    /\ CRM_LEAD_MODEL_ID = <<>>
    /\ field_cache = {}
    /\ tech_names = {}
    /\ label_map = <<>>
    /\ col_map = <<>>
    /\ field_creates = <<>>
    /\ ensured = {}

\* the importer is not running
ImporterOff ==
    /\ ipc = "off"
    /\ rows = <<>>
    /\ recs = <<>>
    /\ bucket = <<>>
    /\ bidx = 1
    /\ ridx = 1
    /\ payloads = <<>>
    /\ matcher_calls = <<>>
    /\ utm = <<>>
    /\ stamps = <<>>
    /\ create_calls = <<>>
    /\ imported = <<>>
    /\ audit = FALSE
    /\ abort_cause = ""

Init ==
    /\ ImporterOff
    /\ HeadersOff
    /\ \E n \in (MaxLeads - 1)..MaxLeads : leads \in [1..n -> LeadProfiles]
    /\ mails = <<>>
    /\ pc = "idle"
    /\ runs = 0
    /\ unowned = <<>>
    /\ ready_leads = <<>>
    /\ idx = 1
    /\ owner_writes = {}
    /\ owned_at_select = {}
    /\ unsent_at_start = {}
    /\ assigned_before = {}
    /\ dispatch = <<>>

\* ------------------------------------------------------------------------
\* updated_transfer_6.py, as the lead table sees it
\* ------------------------------------------------------------------------

\* What a payload of the importer becomes in crm.lead: the owner is False
\* (line 272) and x_email_sent, which no payload carries, is unticked.  One
\* more lead an import can bring: a stocked product, an e-mail address, and
\* a source the routing table does not know.
ImportedProfiles ==
    {p \in LeadProfiles : p.user_id = False /\ p.x_email_sent = FALSE}
    \cup { [source_id |-> <<4, Billboard_raw>>, user_id |-> False,
            email_from |-> "f@x.com", x_product_id |-> <<1, "Soap">>,
            x_bad_product_name |-> "", x_email_sent |-> FALSE] }

\* the payloads written over the last records of the table
create_leads_overwrite(table, new) ==
    [i \in DOMAIN table |->
       IF i > Len(table) - Len(new) THEN new[i - (Len(table) - Len(new))]
       ELSE table[i]]

\* line 281, crm.lead create: new records after the existing ones
create_leads(table, new) == table \o new

\* Lines 271-281: a run of the importer between two runs of automation.py
\* adds its payloads to crm.lead in one create call.
ImportLeads ==
    /\ pc \in {"idle", "finished", "aborted"}
    /\ Len(leads) < MaxLeads
    /\ \E n \in 1..(MaxLeads - Len(leads)) :
         \E new \in [1..n -> ImportedProfiles] :
            leads' = create_leads(leads, new)
    /\ UNCHANGED <<mails, pc, runs, unowned, ready_leads, idx, owner_writes,
                   owned_at_select, unsent_at_start, assigned_before, dispatch>>
    /\ UNCHANGED <<impVars, hdrVars>>

\* ------------------------------------------------------------------------
\* automation.py, part 2: assign salespersons (lines 66-85)
\* ------------------------------------------------------------------------

\* the search with its domain dropped: every lead is selected
unowned_domain_any(ld) == ld.user_id = ld.user_id

\* domain of the un-owned search: ["|", user_id = False, user_id = None]
unowned_domain(ld) == ld.user_id = False

\* Lines 47-70: both templates are loaded (sys.exit when one is missing, an
\* RPC error is not caught), then the un-owned leads are read.
StartBody ==
    /\ pc \in {"idle", "finished", "aborted"}
    /\ unsent_at_start' =
         {i \in DOMAIN leads : leads[i].email_from # "" /\ ~leads[i].x_email_sent}
    /\ assigned_before' =
         assigned_before \cup {i \in owner_writes : leads[i].user_id # False}
    /\ owner_writes' = {}
    /\ dispatch' = <<>>
    /\ ready_leads' = <<>>
    /\ idx' = 1
    /\ \E ok \in BOOLEAN :
         IF ok
         THEN /\ unowned' = search_read(leads, {i \in DOMAIN leads : unowned_domain(leads[i])})
              /\ owned_at_select' = {i \in DOMAIN leads : leads[i].user_id # False}
              /\ pc' = "assign"
         ELSE /\ unowned' = <<>>
              /\ owned_at_select' = {}
              /\ pc' = "aborted"
    /\ UNCHANGED <<leads, mails>>
    /\ UNCHANGED <<impVars, hdrVars>>

\* one of the first MaxRuns runs of the script
StartRun ==
    /\ runs < MaxRuns
    /\ runs' = runs + 1
    /\ StartBody

\* a run after the counted ones: the counter stays at MaxRuns
RestartRun ==
    /\ runs = MaxRuns
    /\ runs' = runs
    /\ StartBody

\* the source label trimmed but compared as typed
src_name_as_typed(ld) ==
    strip(IF Len(ld.source_id) = 2 THEN ld.source_id[2] ELSE <<>>)

\* line 73: trimmed, lower-cased source label ("" when the lead has none)
src_name_of(ld) ==
    lower(strip(IF Len(ld.source_id) = 2 THEN ld.source_id[2] ELSE <<>>))

\* Lines 72-85: one iteration of the loop over `unowned`.  The loop has no
\* try/except: an RPC error in the user search or in the write ends the run.
AssignStep ==
    /\ pc = "assign"
    /\ idx <= Len(unowned)
    /\ LET ld    == unowned[idx]
           login == SOURCE_TO_EMAIL_get(src_name_of(ld))
           uid   == res_users_search(login)
       IN  IF login = ""
           THEN /\ idx' = idx + 1
                /\ UNCHANGED <<leads, pc, owner_writes>>
           ELSE \E search_ok \in BOOLEAN, write_ok \in BOOLEAN :
                  IF ~search_ok
                  THEN /\ pc' = "aborted"
                       /\ UNCHANGED <<leads, idx, owner_writes>>
                  ELSE IF uid = <<>>
                  THEN /\ idx' = idx + 1
                       /\ UNCHANGED <<leads, pc, owner_writes>>
                  ELSE /\ owner_writes' = owner_writes \cup {ld.id}
                       /\ IF write_ok
                          THEN /\ leads' = [leads EXCEPT ![ld.id].user_id =
                                              <<uid[1], user_display(uid[1])>>]
                               /\ idx' = idx + 1
                               /\ pc' = pc
                          ELSE /\ pc' = "aborted"
                               /\ UNCHANGED <<leads, idx>>
    /\ UNCHANGED <<mails, runs, unowned, ready_leads, owned_at_select,
                   unsent_at_start, assigned_before, dispatch>>
    /\ UNCHANGED <<impVars, hdrVars>>

\* ------------------------------------------------------------------------
\* automation.py, part 3: notification (lines 89-176)
\* ------------------------------------------------------------------------

\* the unsent search restricted to leads that have an owner
ready_domain_owned(ld) ==
    ld.x_email_sent = FALSE /\ ld.email_from # "" /\ ld.user_id # False

\* domain of the unsent search: x_email_sent = False and email_from != False
ready_domain(ld) == ld.x_email_sent = FALSE /\ ld.email_from # ""

\* Lines 95-118: templates looked up again (RuntimeError when one is
\* missing), company e-mail read, then the leads awaiting mail are read.
SelectReady ==
    /\ pc = "assign"
    /\ idx > Len(unowned)
    /\ \E ok \in BOOLEAN :
         IF ok
         THEN /\ idx' = 1
              /\ ready_leads' =
                   search_read(leads, {i \in DOMAIN leads : ready_domain(leads[i])})
              /\ pc' = IF \A i \in DOMAIN leads : ~ready_domain(leads[i])
                       THEN "finished" ELSE "notify"
         ELSE /\ ready_leads' = <<>>
              /\ pc' = "aborted"
              /\ UNCHANGED idx
    /\ UNCHANGED <<leads, mails, runs, unowned, owner_writes, owned_at_select,
                   unsent_at_start, assigned_before, dispatch>>
    /\ UNCHANGED <<impVars, hdrVars>>

\* a test that rejects the known failure state instead of accepting the
\* two delivery states
confirmed_state_not_bounced(state) == state # "bounced"

\* line 167: the states on which the checkbox is ticked
confirmed_state(state) == state \in {"sent", "outgoing"}

\* line 165: state = state_rec and state_rec[0]["state"] or "unknown"
state_of(state_rec) == IF state_rec = <<>> THEN "unknown" ELSE state_rec[1]

\* the error leaving the loop, as it would without the try/except
after_exception_propagates(cur) == "aborted"

\* lines 174-176: `except Exception` swallows the error, the loop goes on
after_exception(cur) == cur

\* What the CRM and the mail server can answer to the four RPCs of one
\* dispatch.  create, send, write: the call returns ("ok") or raises;
\* st: the state the mail server leaves the mail in when send() returns;
\* read: the read-back returns the record, returns nothing, or raises.
\* Fields that the code never gets to consult are fixed to one value.
DispatchOutcomes ==
    { [create |-> "raise", send |-> "raise", st |-> "bounced",
       read |-> "raise", write |-> "raise"],
      [create |-> "ok", send |-> "raise", st |-> "bounced",
       read |-> "raise", write |-> "raise"] }
    \cup { [create |-> "ok", send |-> "ok", st |-> s, read |-> r,
            write |-> "raise"] : s \in MailStates, r \in {"raise", "empty", "ok"} }
    \cup { [create |-> "ok", send |-> "ok", st |-> s, read |-> "ok",
            write |-> "ok"] : s \in MailStates }

\* the fallback whoever owns the lead
salesperson_fallback(L) == "our team"

\* line 130: sp = L["user_id"][1] if L["user_id"] else "our team"
salesperson(L) == IF L.user_id # False THEN L.user_id[2] ELSE "our team"

\* Lines 123-176: one iteration of the loop over `ready_leads`.  Once the
\* mail table holds MaxMails records the mail server refuses further creates.
NotifyStep ==
    /\ pc = "notify"
    /\ idx <= Len(ready_leads)
    /\ \E o \in DispatchOutcomes :
         LET L       == ready_leads[idx]
             bad     == L.x_bad_product_name
             sp      == salesperson(L)
             mail    == [res_id |-> L.id, state |-> "created",
                         variant |-> IF bad # "" THEN "apology" ELSE "welcome",
                         sp |-> IF bad # "" THEN "" ELSE sp]
             created == o.create = "ok"
             sent    == created /\ o.send = "ok"
             read    == sent /\ o.read # "raise"
             state   == IF ~read THEN "unread"
                        ELSE state_of(IF o.read = "empty" THEN <<>> ELSE <<o.st>>)
             wrote   == read /\ confirmed_state(state)
             raised  == ~created \/ (created /\ o.send = "raise")
                        \/ (sent /\ o.read = "raise")
                        \/ (wrote /\ o.write = "raise")
             next_pc == IF idx = Len(ready_leads) THEN "finished" ELSE "notify"
         IN  /\ Len(mails) >= MaxMails => o.create = "raise"
             /\ mails' = IF ~created THEN mails
                         ELSE Append(mails,
                                [mail EXCEPT !.state = IF sent THEN o.st ELSE @])
             /\ leads' = IF wrote /\ o.write = "ok"
                         THEN [leads EXCEPT ![L.id].x_email_sent = TRUE]
                         ELSE leads
             /\ dispatch' = Append(dispatch,
                              [lid |-> L.id, created |-> created,
                               triggered |-> sent, state |-> state,
                               wrote |-> wrote, raised |-> raised])
             /\ pc' = IF raised THEN after_exception(next_pc) ELSE next_pc
             /\ idx' = idx + 1
    /\ UNCHANGED <<runs, unowned, ready_leads, owner_writes, owned_at_select,
                   unsent_at_start, assigned_before>>
    /\ UNCHANGED <<impVars, hdrVars>>

\* ------------------------------------------------------------------------
\* updated_transfer_6.py: values, tables and helpers
\* ------------------------------------------------------------------------

\* A payload value is a text (as read from the CSV), a record identifier
\* (after a lookup), a literal the importer stamps, or the boolean False.
Str(s) == [str |-> s]
Id(n) == [id |-> n]
Lit(s) == [lit |-> s]
Bool(b) == [bool |-> b]

None == <<>>

\* dict operations on a record held as a function from its keys
has(rec, k) == k \in DOMAIN rec
get(rec, k, default) == IF k \in DOMAIN rec THEN rec[k] ELSE default
pop(rec, k) == [c \in DOMAIN rec \ {k} |-> rec[c]]
set(rec, k, v) == [c \in DOMAIN rec \cup {k} |-> IF c = k THEN v ELSE rec[c]]

\* truthiness of a payload value (`if utm := rec.get(...)`)
truthy(v) == v # None /\ v # Str(<<>>)

Soap       == <<"S", "o", "a", "p">>
Shampoo    == <<"S", "h", "a", "m", "p", "o", "o">>
Toothpaste == <<"T", "o", "o", "t", "h", "p", "a", "s", "t", "e">>
NOTHING    == <<"N", "O", "T", "H", "I", "N", "G">>

\* all_products: the sale_ok catalogue, pulled once (lines 79-80)
all_products == <<Soap, Shampoo, Toothpaste>>

\* product.product as it is when product_id_by_name searches it: Toothpaste
\* has gone since the catalogue was pulled.
product_product == (Soap :> 1 @@ Shampoo :> 3)

\* lines 74-76: <<id>> of the product of that name, or None
product_id_by_name(name) ==
    IF name \in DOMAIN product_product THEN <<product_product[name]>> ELSE None

res_country == (<<"I", "N">> :> 104)
res_country_state == (<<"G", "A">> :> 588)

\* lines 127-129
country_id_by_name(name) ==
    IF name \in DOMAIN res_country THEN <<res_country[name]>> ELSE None

\* lines 131-133
state_id_by_name(name) ==
    IF name \in DOMAIN res_country_state THEN <<res_country_state[name]>> ELSE None

\* What the oracle can answer to generate_content: the text parts of the
\* candidates, or an exception of the SDK.
OracleResponses ==
    { [exc |-> "none", parts |-> <<Shampoo>>],
      [exc |-> "none", parts |-> << <<" ">>,
              <<" ", "S", "h", "a", "m", "p", "o", "o", "\n">> >>],
      [exc |-> "none", parts |-> <<Toothpaste>>],
      [exc |-> "none", parts |-> << <<"s", "h", "a", "m", "p", "o", "o">> >>],
      [exc |-> "none", parts |-> << <<"N", "o", "t", "h", "i", "n", "g", ".">> >>],
      [exc |-> "none", parts |-> << <<" ">> >>],
      [exc |-> "none", parts |-> <<>>],
      [exc |-> "ResourceExhausted", parts |-> <<>>],
      [exc |-> "ServiceUnavailable", parts |-> <<>>] }

\* line 107: the part has text that is not blank
has_text(part) == strip(part) # <<>>

\* lines 84-122.  rsp is what model.generate_content(prompt) does.  The
\* result says whether an exception leaves the function, and the value
\* returned otherwise.  `catalogue` goes into the prompt only.
best_match_product(raw_name, catalogue, rsp) ==
    IF rsp.exc = "ResourceExhausted"
    THEN [raises |-> FALSE, value |-> None]
    ELSE IF rsp.exc # "none"
    THEN [raises |-> TRUE, value |-> None]
    ELSE LET answer_parts == SelectSeq(rsp.parts, has_text)
         IN  IF answer_parts = <<>>
             THEN [raises |-> FALSE, value |-> None]
             ELSE LET answer == strip(answer_parts[1])
                  IN  IF startswith(upper(answer), NOTHING)
                      THEN [raises |-> FALSE, value |-> None]
                      ELSE [raises |-> FALSE, value |-> answer]

\* ------------------------------------------------------------------------
\* updated_transfer_6.py: the input of a run
\* ------------------------------------------------------------------------

\* Canonical column sets the header mapping can produce for a CSV.
ColumnSets ==
    { {"name", "x_product_id"},
      {"name", "x_product_id", "x_bad_product_name"},
      {"name", "x_bad_product_name"},
      {"name", "country_id", "state_id"},
      {"name", "campaign_id", "medium_id", "source_id"} }

\* Cell values of complete rows: none is blank after strip().
CellValues ==
    (  "name"               :> {<<"A", "n", "n">>}
    @@ "x_product_id"       :> {<<"S", "h", "m", "p", "o", "o">>,
                                <<" ", "S", "h", "m", "p", "o", "o">>,
                                <<"X", "y", "z", "z", "y">>}
    @@ "x_bad_product_name" :> {<<"o", "l", "d">>}
    @@ "country_id"         :> {<<"I", "N">>, <<"Z", "Z">>}
    @@ "state_id"           :> {<<"G", "A">>, <<"Q", "Q">>}
    @@ "campaign_id"        :> {<<"S", "u", "m", "m", "e", "r">>,
                                <<"W", "i", "n", "t", "e", "r">>}
    @@ "medium_id"          :> {<<"E", "m", "a", "i", "l">>}
    @@ "source_id"          :> {<<"I", "n", "s", "t", "a", "g", "r", "a", "m">>,
                                <<"W", "i", "n", "t", "e", "r">>} )

AllCells == UNION {CellValues[c] : c \in DOMAIN CellValues}

\* the complete rows over a column set
RowsOver(cols) ==
    { [c \in cols |-> Str(r[c])] :
        r \in {f \in [cols -> AllCells] : \A c \in cols : f[c] \in CellValues[c]} }

\* utm tables before the run: names in creation order, the id is the position
utm_before ==
    (  "utm.campaign" :> << <<"S", "u", "m", "m", "e", "r">> >>
    @@ "utm.medium"   :> <<>>
    @@ "utm.source"   :> << <<"I", "n", "s", "t", "a", "g", "r", "a", "m">> >> )

\* the automation script is not running
AutomationOff ==
    /\ leads = <<>>
    /\ mails = <<>>
    /\ pc = "off"
    /\ runs = 0
    /\ unowned = <<>>
    /\ ready_leads = <<>>
    /\ idx = 1
    /\ owner_writes = {}
    /\ owned_at_select = {}
    /\ unsent_at_start = {}
    /\ assigned_before = {}
    /\ dispatch = <<>>

InitImport ==
    /\ AutomationOff
    /\ HeadersOff
    /\ ipc = "start"
    /\ \E cols \in ColumnSets, n \in 0..MaxRows :
         rows \in [1..n -> RowsOver(cols)]
    /\ recs = rows
    /\ bucket = <<>>
    /\ bidx = 1
    /\ ridx = 1
    /\ payloads = <<>>
    /\ matcher_calls = <<>>
    /\ utm = utm_before
    /\ stamps = <<>>
    /\ create_calls = <<>>
    /\ imported = <<>>
    /\ audit = FALSE
    /\ abort_cause = ""

\* ------------------------------------------------------------------------
\* updated_transfer_6.py: build payloads (lines 222-273)
\* ------------------------------------------------------------------------

\* line 232: raw_name = row.get("x_product_id", "").strip()
raw_name_of(row) == strip(get(row, "x_product_id", Str(<<>>)).str)

\* lines 230-233: rows grouped by raw_name, keys in first-seen order
RECURSIVE build_bucket(_, _, _)
build_bucket(rs, i, acc) ==
    IF i > Len(rs) THEN acc
    ELSE LET key == raw_name_of(rs[i])
             pos == {k \in DOMAIN acc : acc[k].raw_name = key}
         IN  IF pos = {}
             THEN build_bucket(rs, i + 1,
                    Append(acc, [raw_name |-> key, rec_list |-> <<i>>]))
             ELSE build_bucket(rs, i + 1,
                    [acc EXCEPT ![CHOOSE k \in pos : TRUE].rec_list = Append(@, i)])

\* keys in last-seen-first order
bucket_reversed(rs) ==
    LET b == build_bucket(rs, 1, <<>>)
    IN  [k \in 1..Len(b) |-> b[Len(b) + 1 - k]]

\* no grouping: every row in a bucket of its own
bucket_per_row(rs) ==
    [i \in 1..Len(rs) |-> [raw_name |-> raw_name_of(rs[i]), rec_list |-> <<i>>]]

bucket_of(rs) == build_bucket(rs, 1, <<>>)

\* lines 226-227: what the two searches return (an empty list when the
\* stage or the team is not found), or an RPC error
StampOutcomes ==
    [new_stage_id : {<<>>, <<1>>}, sales_team_id : {<<>>, <<5>>}]

abort(cause) ==
    /\ ipc' = "aborted"
    /\ abort_cause' = cause

\* Lines 224-233: stage and team looked up, rows bucketed.
Prepare ==
    /\ ipc = "start"
    /\ \E ok \in BOOLEAN, st \in StampOutcomes :
         IF ok
         THEN /\ stamps' = st
              /\ bucket' = bucket_of(rows)
              /\ ipc' = IF rows = <<>> THEN "create" ELSE "match"
              /\ UNCHANGED abort_cause
         ELSE /\ abort("rpc")
              /\ UNCHANGED <<stamps, bucket>>
    /\ UNCHANGED <<rows, recs, bidx, ridx, payloads, matcher_calls, utm,
                   create_calls, imported, audit>>
    /\ UNCHANGED <<autoVars, hdrVars>>

\* lines 240-251: what the bucket's verdict does to one record
apply_match(rec, raw_name, fixed_name, pid) ==
    IF fixed_name # None
    THEN IF pid # None THEN set(rec, "x_product_id", Id(pid[1])) ELSE rec
    ELSE set(pop(rec, "x_product_id"), "x_bad_product_name", Str(raw_name))

\* the matcher is asked whatever the raw name is
asks_matcher_always(raw_name) == TRUE

\* line 237, "if raw_name": the matcher is asked only about a raw name that
\* is not empty
asks_matcher(raw_name) == raw_name # <<>>

\* Lines 235-251: the matcher is asked about the bucket's raw name, the
\* matched name is resolved, the verdict is written to every record of the
\* bucket.  An exception leaving best_match_product or product_id_by_name is
\* not caught.
MatchBucket ==
    /\ ipc = "match"
    /\ bidx <= Len(bucket)
    /\ \E rsp \in OracleResponses, lookup_ok \in BOOLEAN :
         LET raw_name   == bucket[bidx].raw_name
             rec_list   == bucket[bidx].rec_list
             m          == IF asks_matcher(raw_name)
                           THEN best_match_product(raw_name, all_products, rsp)
                           ELSE [raises |-> FALSE, value |-> None]
             fixed_name == m.value
             pid        == product_id_by_name(fixed_name)
             members    == {rec_list[k] : k \in DOMAIN rec_list}
         IN  /\ matcher_calls' =
                  IF asks_matcher(raw_name)
                  THEN Append(matcher_calls,
                         [raw_name |-> raw_name, rsp |-> rsp,
                          raised |-> m.raises, result |-> fixed_name,
                          lookup |-> IF m.raises \/ fixed_name = None THEN "skipped"
                                     ELSE IF ~lookup_ok THEN "raised"
                                     ELSE IF pid = None THEN "missing"
                                     ELSE "found"])
                  ELSE matcher_calls
             /\ IF m.raises
                THEN abort("oracle") /\ UNCHANGED <<recs, ridx>>
                ELSE IF fixed_name # None /\ ~lookup_ok
                THEN abort("rpc") /\ UNCHANGED <<recs, ridx>>
                ELSE /\ recs' = [i \in DOMAIN recs |->
                                   IF i \in members
                                   THEN apply_match(recs[i], raw_name, fixed_name, pid)
                                   ELSE recs[i]]
                     /\ ridx' = 1
                     /\ ipc' = "enrich"
                     /\ UNCHANGED abort_cause
    /\ UNCHANGED <<rows, bucket, bidx, payloads, utm, stamps, create_calls,
                   imported, audit>>
    /\ UNCHANGED <<autoVars, hdrVars>>

\* lines 136-143, ensure(model, name): the id found, else the id created
ensure_id(tbl, name) ==
    IF \E k \in DOMAIN tbl : tbl[k] = name
    THEN CHOOSE k \in DOMAIN tbl : tbl[k] = name /\ \A j \in 1..(k - 1) : tbl[j] # name
    ELSE Len(tbl) + 1

\* a record created whether or not the search would have found one
ensure_table_append(tbl, name) == Append(tbl, name)

\* the model's table after ensure(model, name)
ensure_table(tbl, name) ==
    IF \E k \in DOMAIN tbl : tbl[k] = name THEN tbl ELSE Append(tbl, name)

\* lines 263 and 266: rec[key] = id if id else rec.pop(key).  Python
\* evaluates the right-hand side, pop included, before it stores the result
\* under rec[key].
assign_or_pop(rec, key, found) ==
    IF found # None
    THEN set(rec, key, Id(found[1]))
    ELSE LET popped == rec[key]
         IN  set(pop(rec, key), key, popped)

\* order of the RPC-making steps of lines 255-266
EnrichSteps == <<"campaign_id", "medium_id", "source_id", "country_id", "state_id">>

StepNo(f) == CHOOSE k \in DOMAIN EnrichSteps : EnrichSteps[k] = f

utm_model(f) ==
    CASE f = "campaign_id" -> "utm.campaign"
      [] f = "medium_id"   -> "utm.medium"
      [] f = "source_id"   -> "utm.source"

\* Lines 254-273: one record of the bucket enriched and appended.
\*   fail_at: the step whose RPC raises ("none" when none does); the steps
\*   before it have had their effect.
EnrichRecord ==
    /\ ipc = "enrich"
    /\ ridx <= Len(bucket[bidx].rec_list)
    /\ \E fail_at \in {"none"} \cup {EnrichSteps[k] : k \in DOMAIN EnrichSteps} :
         LET i       == bucket[bidx].rec_list[ridx]
             r0      == recs[i]
             does(f) == /\ truthy(get(r0, f, None))
                        /\ (fail_at = "none" \/ StepNo(f) < StepNo(fail_at))
             via(r, f) ==
                 IF ~does(f) THEN r
                 ELSE set(r, f, Id(ensure_id(utm[utm_model(f)], r0[f].str)))
             r3      == via(via(via(r0, "campaign_id"), "medium_id"), "source_id")
             r4      == IF does("country_id")
                        THEN assign_or_pop(r3, "country_id",
                               country_id_by_name(r0["country_id"].str))
                        ELSE r3
             r5      == IF does("state_id")
                        THEN assign_or_pop(r4, "state_id",
                               state_id_by_name(r0["state_id"].str))
                        ELSE r4
             r6      == IF stamps.new_stage_id # <<>>
                        THEN set(r5, "stage_id", Id(stamps.new_stage_id[1]))
                        ELSE r5
             r7      == IF stamps.sales_team_id # <<>>
                        THEN set(r6, "team_id", Id(stamps.sales_team_id[1]))
                        ELSE r6
             r9      == set(set(r7, "type", Lit("opportunity")),
                            "user_id", Bool(FALSE))
             last    == ridx = Len(bucket[bidx].rec_list)
         IN  /\ fail_at # "none" => truthy(get(r0, fail_at, None))
             /\ utm' = [mdl \in DOMAIN utm |->
                          LET f == CHOOSE g \in {"campaign_id", "medium_id", "source_id"} :
                                      utm_model(g) = mdl
                          IN  IF does(f) THEN ensure_table(utm[mdl], r0[f].str)
                              ELSE utm[mdl]]
             /\ IF fail_at # "none"
                THEN /\ recs' = [recs EXCEPT ![i] = r5]
                     /\ abort("rpc")
                     /\ UNCHANGED <<payloads, ridx, bidx>>
                ELSE /\ recs' = [recs EXCEPT ![i] = r9]
                     /\ payloads' = Append(payloads, r9)
                     /\ ridx' = IF last THEN 1 ELSE ridx + 1
                     /\ bidx' = IF last THEN bidx + 1 ELSE bidx
                     /\ ipc' = IF ~last THEN "enrich"
                               ELSE IF bidx = Len(bucket) THEN "create"
                               ELSE "match"
                     /\ UNCHANGED abort_cause
    /\ UNCHANGED <<rows, bucket, matcher_calls, stamps, create_calls,
                   imported, audit>>
    /\ UNCHANGED <<autoVars, hdrVars>>

\* ------------------------------------------------------------------------
\* updated_transfer_6.py: bulk create and audit dump (lines 275-289)
\* ------------------------------------------------------------------------

\* the create call is tried again after a failure
after_create_error_retry == "create"

\* lines 282-284, except Exception: sys.exit("... Import failed ...")
after_create_error == "aborted"

\* Lines 276-284: nothing to import ends the run; otherwise one create call
\* with the whole list, and sys.exit when it raises.
BulkCreate ==
    /\ ipc = "create"
    /\ IF payloads = <<>>
       THEN /\ ipc' = "done"
            /\ UNCHANGED <<create_calls, imported, abort_cause>>
       ELSE /\ create_calls' = Append(create_calls, payloads)
            /\ \E ok \in BOOLEAN :
                 IF ok
                 THEN /\ imported' = payloads
                      /\ ipc' = "audit"
                      /\ UNCHANGED abort_cause
                 ELSE /\ ipc' = after_create_error
                      /\ abort_cause' = "create"
                      /\ UNCHANGED imported
    /\ UNCHANGED <<rows, recs, bucket, bidx, ridx, payloads, matcher_calls,
                   utm, stamps, audit>>
    /\ UNCHANGED <<autoVars, hdrVars>>

\* Lines 287-289: the created records are read back and written to
\* imported_new_stage.csv; an RPC error in the read is not caught.
AuditDump ==
    /\ ipc = "audit"
    /\ \E ok \in BOOLEAN :
         IF ok
         THEN /\ audit' = TRUE
              /\ ipc' = "done"
              /\ UNCHANGED abort_cause
         ELSE /\ abort("rpc")
              /\ UNCHANGED audit
    /\ UNCHANGED <<rows, recs, bucket, bidx, ridx, payloads, matcher_calls,
                   utm, stamps, create_calls, imported>>
    /\ UNCHANGED <<autoVars, hdrVars>>

NextImport ==
    \/ Prepare
    \/ MatchBucket
    \/ EnrichRecord
    \/ BulkCreate
    \/ AuditDump

SpecImport == InitImport /\ [][NextImport]_vars

Next ==
    \/ ImportLeads
    \/ StartRun
    \/ AssignStep
    \/ SelectReady
    \/ NotifyStep

Spec == Init /\ [][Next]_vars

\* ------------------------------------------------------------------------
\* automation.py run again and again
\* ------------------------------------------------------------------------

NextLive ==
    \/ Next
    \/ RestartRun

\* a run gets as far as the selection of the leads awaiting their mail
SelectOk == SelectReady /\ pc' # "aborted"

\* the dispatch of lead i reads back "sent" or "outgoing" and ticks the flag
Confirmed(i) == NotifyStep /\ ready_leads[idx].id = i /\ leads'[i].x_email_sent

\* The script is started again whenever it has ended and a started run
\* takes its steps; again and again a run gets through to the
\* Notification Engine; and a lead whose dispatch can be confirmed again and
\* again has it confirmed at some time.
Fairness ==
    /\ WF_vars(NextLive)
    /\ []<><<SelectOk>>_vars
    /\ \A i \in LeadIds : SF_vars(Confirmed(i))

SpecLive == Init /\ [][NextLive]_vars /\ Fairness

\* ------------------------------------------------------------------------
\* updated_transfer_6.py: custom fields and header mapping (lines 44-205)
\* ------------------------------------------------------------------------
Digits == {"0", "1", "2", "3", "4", "5", "6", "7", "8", "9"}

IsAlnum(c) ==
    \/ c \in Digits
    \/ \E i \in DOMAIN UpperAlpha : UpperAlpha[i] = c \/ LowerAlpha[i] = c

IsLowerAlnum(c) == c \in Digits \/ \E i \in DOMAIN LowerAlpha : LowerAlpha[i] = c

\* NFKD splits an accented letter into the letter and a combining mark
Decomposed == ("é" :> "e") @@ ("É" :> "E")

\* characters outside ASCII that NFKD leaves outside ASCII
NonAscii == {"€"}

\* line 45: unicodedata.normalize("NFKD", text).encode("ascii", "ignore")
RECURSIVE ascii_fold(_)
ascii_fold(s) ==
    IF s = <<>> THEN <<>>
    ELSE (IF Head(s) \in DOMAIN Decomposed THEN <<Decomposed[Head(s)]>>
          ELSE IF Head(s) \in NonAscii THEN <<>>
          ELSE <<Head(s)>>) \o ascii_fold(Tail(s))

\* line 46: re.sub(r"[^0-9A-Za-z]+", "_", txt)
RECURSIVE sub_non_alnum(_, _)
sub_non_alnum(s, in_run) ==
    IF s = <<>> THEN <<>>
    ELSE IF IsAlnum(Head(s)) THEN <<Head(s)>> \o sub_non_alnum(Tail(s), FALSE)
    ELSE IF in_run THEN sub_non_alnum(Tail(s), TRUE)
    ELSE <<"_">> \o sub_non_alnum(Tail(s), TRUE)

\* line 46: .strip("_")
RECURSIVE strip_underscores(_)
strip_underscores(s) ==
    IF s # <<>> /\ Head(s) = "_" THEN strip_underscores(Tail(s))
    ELSE IF s # <<>> /\ s[Len(s)] = "_"
    THEN strip_underscores(SubSeq(s, 1, Len(s) - 1))
    ELSE s

\* lines 44-46
slugify(text) == lower(strip_underscores(sub_non_alnum(ascii_fold(text), FALSE)))

\* line 190: re.sub(r"[^a-z0-9]", "", raw_key)
clean_of(raw_key) == SelectSeq(raw_key, IsLowerAlnum)

\* lines 161: NAME_CANDS
NAME_CANDS ==
    { <<"n", "a", "m", "e">>,
      <<"f", "u", "l", "l", " ", "n", "a", "m", "e">>,
      <<"c", "u", "s", "t", "o", "m", "e", "r", " ", "n", "a", "m", "e">>,
      <<"c", "l", "i", "e", "n", "t", " ", "n", "a", "m", "e">>,
      <<"o", "p", "p", "o", "r", "t", "u", "n", "i", "t", "y">> }

\* lines 153-159: the entries label_map.update adds
LABEL_UPDATES ==
    (  <<"e", "m", "a", "i", "l">> :> <<"e", "m", "a", "i", "l", "_", "f", "r", "o", "m">>
    @@ <<"e", "-", "m", "a", "i", "l">> :> <<"e", "m", "a", "i", "l", "_", "f", "r", "o", "m">>
    @@ <<"p", "h", "o", "n", "e">> :> <<"p", "h", "o", "n", "e">>
    @@ <<"m", "o", "b", "i", "l", "e">> :> <<"m", "o", "b", "i", "l", "e">>
    @@ <<"c", "a", "m", "p", "a", "i", "g", "n">> :> <<"c", "a", "m", "p", "a", "i", "g", "n", "_", "i", "d">>
    @@ <<"m", "e", "d", "i", "u", "m">> :> <<"m", "e", "d", "i", "u", "m", "_", "i", "d">>
    @@ <<"s", "o", "u", "r", "c", "e">> :> <<"s", "o", "u", "r", "c", "e", "_", "i", "d">>
    @@ <<"l", "e", "a", "d", " ", "s", "o", "u", "r", "c", "e">> :> <<"s", "o", "u", "r", "c", "e", "_", "i", "d">>
    @@ <<"r", "e", "f", "e", "r", "r", "e", "d", " ", "b", "y">> :> <<"r", "e", "f", "e", "r", "r", "e", "d">>
    @@ <<"c", "o", "u", "n", "t", "r", "y">> :> <<"c", "o", "u", "n", "t", "r", "y", "_", "i", "d">>
    @@ <<"s", "t", "a", "t", "e">> :> <<"s", "t", "a", "t", "e", "_", "i", "d">> )

\* lines 166-185: SYN_LOOKUP as the loop builds it from SYNONYMS
SYN_LOOKUP ==
    (  <<"n", "a", "m", "e">> :> <<"n", "a", "m", "e">>
    @@ <<"f", "u", "l", "l", "n", "a", "m", "e">> :> <<"n", "a", "m", "e">>
    @@ <<"c", "u", "s", "t", "o", "m", "e", "r", "n", "a", "m", "e">> :> <<"n", "a", "m", "e">>
    @@ <<"c", "l", "i", "e", "n", "t", "n", "a", "m", "e">> :> <<"n", "a", "m", "e">>
    @@ <<"o", "p", "p", "o", "r", "t", "u", "n", "i", "t", "y">> :> <<"n", "a", "m", "e">>
    @@ <<"e", "m", "a", "i", "l">> :> <<"e", "m", "a", "i", "l", "_", "f", "r", "o", "m">>
    @@ <<"m", "a", "i", "l">> :> <<"e", "m", "a", "i", "l", "_", "f", "r", "o", "m">>
    @@ <<"e", "m", "a", "i", "l", "a", "d", "d", "r", "e", "s", "s">> :> <<"e", "m", "a", "i", "l", "_", "f", "r", "o", "m">>
    @@ <<"e", "m", "a", "i", "l", "i", "d">> :> <<"e", "m", "a", "i", "l", "_", "f", "r", "o", "m">>
    @@ <<"p", "h", "o", "n", "e">> :> <<"p", "h", "o", "n", "e">>
    @@ <<"t", "e", "l", "e", "p", "h", "o", "n", "e">> :> <<"p", "h", "o", "n", "e">>
    @@ <<"t", "e", "l">> :> <<"p", "h", "o", "n", "e">>
    @@ <<"c", "o", "n", "t", "a", "c", "t", "n", "u", "m", "b", "e", "r">> :> <<"p", "h", "o", "n", "e">>
    @@ <<"m", "o", "b", "i", "l", "e">> :> <<"m", "o", "b", "i", "l", "e">>
    @@ <<"m", "o", "b", "i", "l", "e", "n", "u", "m", "b", "e", "r">> :> <<"m", "o", "b", "i", "l", "e">>
    @@ <<"c", "e", "l", "l">> :> <<"m", "o", "b", "i", "l", "e">>
    @@ <<"c", "e", "l", "l", "p", "h", "o", "n", "e">> :> <<"m", "o", "b", "i", "l", "e">>
    @@ <<"a", "d", "d", "r", "e", "s", "s">> :> <<"s", "t", "r", "e", "e", "t">>
    @@ <<"s", "t", "r", "e", "e", "t">> :> <<"s", "t", "r", "e", "e", "t">>
    @@ <<"a", "d", "d", "r">> :> <<"s", "t", "r", "e", "e", "t">>
    @@ <<"c", "i", "t", "y">> :> <<"c", "i", "t", "y">>
    @@ <<"t", "o", "w", "n">> :> <<"c", "i", "t", "y">>
    @@ <<"z", "i", "p">> :> <<"z", "i", "p">>
    @@ <<"z", "i", "p", "c", "o", "d", "e">> :> <<"z", "i", "p">>
    @@ <<"p", "o", "s", "t", "a", "l", "c", "o", "d", "e">> :> <<"z", "i", "p">>
    @@ <<"c", "o", "u", "n", "t", "r", "y">> :> <<"c", "o", "u", "n", "t", "r", "y", "_", "i", "d">>
    @@ <<"n", "a", "t", "i", "o", "n">> :> <<"c", "o", "u", "n", "t", "r", "y", "_", "i", "d">>
    @@ <<"s", "t", "a", "t", "e">> :> <<"s", "t", "a", "t", "e", "_", "i", "d">>
    @@ <<"p", "r", "o", "v", "i", "n", "c", "e">> :> <<"s", "t", "a", "t", "e", "_", "i", "d">>
    @@ <<"r", "e", "g", "i", "o", "n">> :> <<"s", "t", "a", "t", "e", "_", "i", "d">>
    @@ <<"c", "a", "m", "p", "a", "i", "g", "n">> :> <<"c", "a", "m", "p", "a", "i", "g", "n", "_", "i", "d">>
    @@ <<"m", "e", "d", "i", "u", "m">> :> <<"m", "e", "d", "i", "u", "m", "_", "i", "d">>
    @@ <<"s", "o", "u", "r", "c", "e">> :> <<"s", "o", "u", "r", "c", "e", "_", "i", "d">>
    @@ <<"l", "e", "a", "d", "s", "o", "u", "r", "c", "e">> :> <<"s", "o", "u", "r", "c", "e", "_", "i", "d">>
    @@ <<"t", "r", "a", "f", "f", "i", "c", "s", "o", "u", "r", "c", "e">> :> <<"s", "o", "u", "r", "c", "e", "_", "i", "d">>
    @@ <<"r", "e", "f", "e", "r", "r", "e", "d">> :> <<"r", "e", "f", "e", "r", "r", "e", "d">>
    @@ <<"r", "e", "f", "e", "r", "r", "e", "r">> :> <<"r", "e", "f", "e", "r", "r", "e", "d">>
    @@ <<"r", "e", "f", "e", "r", "r", "a", "l">> :> <<"r", "e", "f", "e", "r", "r", "e", "d">>
    @@ <<"p", "r", "o", "d", "u", "c", "t">> :> <<"p", "r", "o", "d", "u", "c", "t", "_", "i", "d">>
    @@ <<"p", "r", "o", "d", "u", "c", "t", "n", "a", "m", "e">> :> <<"p", "r", "o", "d", "u", "c", "t", "_", "i", "d">>
    @@ <<"s", "k", "u">> :> <<"p", "r", "o", "d", "u", "c", "t", "_", "i", "d">> )

x_bad_product_name == <<"x", "_", "b", "a", "d", "_", "p", "r", "o", "d", "u", "c", "t", "_", "n", "a", "m", "e">>

\* The fields of crm.lead before the run, with their labels: three fields
\* of the CRM, and custom fields that earlier runs may have created.
StockFields ==
    (  <<"n", "a", "m", "e">> :> <<"O", "p", "p", "o", "r", "t", "u", "n", "i", "t", "y">>
    @@ <<"e", "m", "a", "i", "l", "_", "f", "r", "o", "m">> :> <<"E", "m", "a", "i", "l">>
    @@ <<"p", "r", "i", "o", "r", "i", "t", "y">> :> <<"P", "r", "i", "o", "r", "i", "t", "y">> )

SchemasBefore ==
    { StockFields,
      (x_bad_product_name :> <<"O", "r", "i", "g", "i", "n", "a", "l", " ", "b", "a", "d", " ", "p", "r", "o", "d", "u", "c", "t">>) @@ StockFields,
      (<<"x", "_", "b", "u", "d", "g", "e", "t">> :> <<"B", "u", "d", "g", "e", "t">>)
        @@ (x_bad_product_name :> <<"O", "r", "i", "g", "i", "n", "a", "l", " ", "b", "a", "d", " ", "p", "r", "o", "d", "u", "c", "t">>) @@ StockFields }

\* Headers a CSV may carry.
HeaderPool ==
    { <<"N", "a", "m", "e">>,
      <<" ", "E", "m", "a", "i", "l">>,
      <<"P", "r", "i", "o", "r", "i", "t", "y", "!">>,
      <<"B", "u", "d", "g", "e", "t", " ", "$">>,
      <<"b", "u", "d", "g", "e", "t", "!">>,
      <<"C", "a", "f", "é", " ", "€">>,
      <<"B", "a", "d", " ", "P", "r", "o", "d", "u", "c", "t", " ", "N", "a", "m", "e">>,
      <<"P", "r", "o", "d", "u", "c", "t">> }

\* the columns of a CSV: pandas keeps them distinct
HeaderLists ==
    UNION { {h \in [1..n -> HeaderPool] : \A i, j \in 1..n : i # j => h[i] # h[j]} :
            n \in 1..MaxHeaders }

InitHeaders ==
    /\ AutomationOff
    /\ ImporterOff
    /\ hpc = "start"
    /\ headers \in HeaderLists
    /\ hidx = 1
    /\ schema \in SchemasBefore
    /\ CRM_LEAD_MODEL_ID = <<>>
    /\ field_cache = {}
    /\ tech_names = {}
    /\ label_map = <<>>
    /\ col_map = <<>>
    /\ field_creates = <<>>
    /\ ensured = {}

\* what the RPCs of one ensure_field call do: all return, or the first one
\* named raises
EnsureOutcomes == {"ok", "model_raises", "search_raises", "create_raises"}

\* the search of line 56 finding nothing whatever the schema holds
field_exists_never(sch, name) == FALSE

\* line 56: ir.model.fields search on model crm.lead and the name
field_exists(sch, name) == name \in DOMAIN sch

\* Lines 51-67, ensure_field(name, label), on the record st of the schema,
\* the cached model id, _field_cache and the two logs.
ensure_field(st, name, label, rpc) ==
    IF name \in st.field_cache
    THEN [st EXCEPT !.ensured = @ \cup {name}]
    ELSE IF st.model_id = <<>> /\ rpc = "model_raises"
    THEN [st EXCEPT !.raised = TRUE]
    ELSE LET st1 == [st EXCEPT !.model_id = <<85>>]
         IN  IF rpc = "search_raises"
             THEN [st1 EXCEPT !.raised = TRUE]
             ELSE IF field_exists(st1.schema, name)
             THEN [st1 EXCEPT !.field_cache = @ \cup {name},
                              !.ensured = @ \cup {name}]
             ELSE LET call == [name |-> name,
                               existed |-> name \in DOMAIN st1.schema]
                  IN  IF rpc = "create_raises"
                      THEN [st1 EXCEPT !.field_creates = Append(@, call),
                                       !.raised = TRUE]
                      ELSE [st1 EXCEPT !.field_creates = Append(@, call),
                                       !.schema = (name :> label) @@ @,
                                       !.field_cache = @ \cup {name},
                                       !.ensured = @ \cup {name}]

\* the variables ensure_field reads and writes, as one record
ensure_state ==
    [schema |-> schema, model_id |-> CRM_LEAD_MODEL_ID,
     field_cache |-> field_cache, field_creates |-> field_creates,
     ensured |-> ensured, raised |-> FALSE]

\* the variables take the values of the record ensure_field returned
ensure_done(st) ==
    /\ schema' = st.schema
    /\ CRM_LEAD_MODEL_ID' = st.model_id
    /\ field_cache' = st.field_cache
    /\ field_creates' = st.field_creates
    /\ ensured' = st.ensured

\* Line 70: ensure_field("x_bad_product_name", "Original bad product").  An
\* exception of an RPC is not caught.
EnsureBadField ==
    /\ hpc = "start"
    /\ \E rpc \in EnsureOutcomes :
         LET st == ensure_field(ensure_state, x_bad_product_name,
                                <<"O", "r", "i", "g", "i", "n", "a", "l", " ", "b", "a", "d", " ", "p", "r", "o", "d", "u", "c", "t">>, rpc)
         IN  /\ ensure_done(st)
             /\ hpc' = IF st.raised THEN "aborted" ELSE "meta"
    /\ UNCHANGED <<headers, hidx, tech_names, label_map, col_map>>
    /\ UNCHANGED <<autoVars, impVars>>

\* lines 151-152: label_map from the labels of fields_get, then the update
label_map_of(sch) ==
    LET labels == {strip(lower(sch[k])) : k \in DOMAIN sch}
    IN  [l \in labels \cup DOMAIN LABEL_UPDATES |->
           IF l \in DOMAIN LABEL_UPDATES THEN LABEL_UPDATES[l]
           ELSE CHOOSE k \in DOMAIN sch : strip(lower(sch[k])) = l]

\* line 162: the first header that can feed `name`, None when there is none
name_header_of(hs) ==
    LET cands == {i \in DOMAIN hs : strip(lower(hs[i])) \in NAME_CANDS}
    IN  IF cands = {} THEN None
        ELSE hs[CHOOSE i \in cands : \A j \in cands : i <= j]

\* Lines 149-164: fields_get feeds tech_names and label_map (an RPC error is
\* not caught); sys.exit when no header can feed `name`.
LoadMeta ==
    /\ hpc = "meta"
    /\ \E ok \in BOOLEAN :
         IF ok
         THEN /\ tech_names' = DOMAIN schema
              /\ label_map' = label_map_of(schema)
              /\ hpc' = IF name_header_of(headers) = None THEN "aborted"
                        ELSE "resolve"
         ELSE /\ hpc' = "aborted"
              /\ UNCHANGED <<tech_names, label_map>>
    /\ UNCHANGED <<headers, hidx, schema, CRM_LEAD_MODEL_ID, field_cache,
                   col_map, field_creates, ensured>>
    /\ UNCHANGED <<autoVars, impVars>>

\* lines 189-204: the Odoo key of one header, and whether ensure_field is
\* called for it
col_key(hdr, name_header, tn, lm) ==
    LET raw_key == strip(lower(hdr))
        clean   == clean_of(raw_key)
    IN  IF hdr = name_header THEN [key |-> <<"n", "a", "m", "e">>, ensure |-> FALSE]
        ELSE IF raw_key \in tn THEN [key |-> raw_key, ensure |-> FALSE]
        ELSE IF raw_key \in DOMAIN lm THEN [key |-> lm[raw_key], ensure |-> FALSE]
        ELSE IF clean \in DOMAIN SYN_LOOKUP
        THEN [key |-> SYN_LOOKUP[clean], ensure |-> FALSE]
        ELSE LET slug     == slugify(hdr)
                 odoo_key == IF slug \in tn THEN slug ELSE <<"x", "_">> \o slug
             IN  [key |-> odoo_key, ensure |-> odoo_key \notin tn]

\* Lines 188-205: one iteration of the loop over df_orig.columns.
ResolveHeader ==
    /\ hpc = "resolve"
    /\ hidx <= Len(headers)
    /\ \E rpc \in EnsureOutcomes :
         LET hdr == headers[hidx]
             r   == col_key(hdr, name_header_of(headers), tech_names, label_map)
             st  == IF r.ensure THEN ensure_field(ensure_state, r.key, hdr, rpc)
                    ELSE ensure_state
         IN  /\ ensure_done(st)
             /\ IF st.raised
                THEN /\ hpc' = "aborted"
                     /\ UNCHANGED <<hidx, tech_names, col_map>>
                ELSE /\ tech_names' = IF r.ensure THEN tech_names \cup {r.key}
                                      ELSE tech_names
                     /\ col_map' = Append(col_map, [hdr |-> hdr, key |-> r.key])
                     /\ hidx' = hidx + 1
                     /\ hpc' = IF hidx = Len(headers) THEN "done" ELSE "resolve"
    /\ UNCHANGED <<headers, label_map>>
    /\ UNCHANGED <<autoVars, impVars>>

NextHeaders ==
    \/ EnsureBadField
    \/ LoadMeta
    \/ ResolveHeader

SpecHeaders == InitHeaders /\ [][NextHeaders]_vars

\* ------------------------------------------------------------------------
\* Properties of automation.py
\* ------------------------------------------------------------------------
Delivered == {"sent", "outgoing"}

DeliveredMails(l) ==
    {m \in DOMAIN mails : mails[m].res_id = l /\ mails[m].state \in Delivered}

\* C1: over any sequence of runs and any outcomes of the repository calls,
\* at most one mail per lead ever reaches delivery state "sent" or
\* "outgoing".
C1_AtMostOneDeliveredMailPerLead ==
    \A l \in LeadIds : Cardinality(DeliveredMails(l)) <= 1

\* C2: x_email_sent is written true for a lead only if, in the same run, a
\* mail was created for it, delivery was triggered and the state read back
\* is "sent" or "outgoing"; for any other state (a missing state record
\* included) or an exception in create, send or read no write is issued.
C2_FlagOnlyOnConfirmedDelivery ==
    /\ \A k \in DOMAIN dispatch :
         dispatch[k].wrote <=>
           /\ dispatch[k].created
           /\ dispatch[k].triggered
           /\ dispatch[k].state \in Delivered
           /\ \E m \in DOMAIN mails :
                /\ mails[m].res_id = dispatch[k].lid
                /\ mails[m].state = dispatch[k].state
    /\ \A k \in DOMAIN ready_leads :
         leads[ready_leads[k].id].x_email_sent =>
           /\ k \in DOMAIN dispatch
           /\ dispatch[k].lid = ready_leads[k].id
           /\ dispatch[k].wrote

C2_Witness ==
    \E k \in DOMAIN dispatch :
       /\ dispatch[k].wrote
       /\ leads[dispatch[k].lid].x_email_sent
       /\ \E j \in DOMAIN dispatch : dispatch[j].triggered /\ ~dispatch[j].wrote

\* C7: the Ownership Router is idempotent: a later pass issues no owner
\* write for a record assigned on an earlier pass, and in any run no record
\* that has an owner at selection time has its user_id written.
C7_RouterIdempotent ==
    /\ owner_writes \cap assigned_before = {}
    /\ owner_writes \cap owned_at_select = {}

C7_Witness ==
    /\ runs = 2
    /\ pc \in {"notify", "finished"}
    /\ assigned_before # {}
    /\ owned_at_select # {}

\* C8: in the Notification Engine a failure on one record (an exception in
\* a repository call of its dispatch, or an unconfirmed state such as
\* "bounced") never leaves the loop: every record selected at the start of
\* the run gets its own dispatch attempt whatever happened to earlier ones.
C8_DispatchIsolated ==
    /\ \A k \in DOMAIN dispatch :
         k \in DOMAIN ready_leads /\ dispatch[k].lid = ready_leads[k].id
    /\ pc = "notify" => Len(dispatch) = idx - 1 /\ idx <= Len(ready_leads)
    /\ pc = "finished" => Len(dispatch) = Len(ready_leads)
    /\ pc = "aborted" => dispatch = <<>>

C8_Witness ==
    /\ pc = "finished"
    /\ Len(dispatch) = 2
    /\ dispatch[1].raised
    /\ dispatch[2].wrote

\* no step unticks the flag of a lead or removes a lead whose flag is ticked
FlagKept ==
    \A i \in DOMAIN leads :
       leads[i].x_email_sent => (i \in DOMAIN leads' /\ leads'[i].x_email_sent)

\* C13: x_email_sent is monotonic: once a lead's flag is true no step of
\* the importer, of the Ownership Router or of the Notification Engine
\* makes it false again, over any sequence of runs.
C13_EmailSentMonotonic == [][FlagKept]_vars

\* a flag ticked by the first run is still ticked after the importer added a
\* lead and a second run went through both loops
C13_Witness ==
    /\ runs = 2
    /\ pc = "finished"
    /\ owner_writes # {}
    /\ dispatch # <<>>
    /\ \E i \in DOMAIN leads :
         /\ leads[i].x_email_sent
         /\ DeliveredMails(i) # {}
         /\ \A k \in DOMAIN dispatch : dispatch[k].lid # i
         /\ \E k \in DOMAIN dispatch : dispatch[k].lid > i

\* every lead that was awaiting its mail when the run started is among the
\* selected records once the selection is made, and has its dispatch
\* attempt when the loop is over
SelectedAndAttempted ==
    /\ pc \in {"notify", "finished"} =>
         \A l \in unsent_at_start :
            \E k \in DOMAIN ready_leads : ready_leads[k].id = l
    /\ pc = "finished" =>
         \A l \in unsent_at_start :
            \E k \in DOMAIN dispatch : dispatch[k].lid = l

Awaiting(l) ==
    l \in DOMAIN leads /\ leads[l].email_from # "" /\ ~leads[l].x_email_sent

Ticked(l) == l \in DOMAIN leads /\ leads[l].x_email_sent

\* C14: there is no terminal failure state for notification.  In every run
\* that gets to the Notification Engine, each lead that had an e-mail
\* address and an unticked flag when the run started is selected and gets a
\* dispatch attempt, whatever happened to it in earlier runs; and when runs
\* keep being started and no repository call fails for ever, the flag of
\* such a lead is ticked in the end, unless the mail table fills up first.
C14_NoTerminalFailure ==
    /\ []SelectedAndAttempted
    /\ \A l \in LeadIds :
         Awaiting(l) ~> (Ticked(l) \/ Len(mails) >= MaxMails)

\* the flag is ticked by the second run, after the mail of the first run
\* bounced
C14_Witness ==
    /\ runs = 2
    /\ pc = "finished"
    /\ \E k \in DOMAIN dispatch :
         /\ dispatch[k].wrote
         /\ leads[dispatch[k].lid].x_email_sent
         /\ \E m \in DOMAIN mails :
              mails[m].res_id = dispatch[k].lid /\ mails[m].state = "bounced"

\* the loop of the Ownership Router has dealt with the k-th selected record
Routed(k) ==
    /\ k \in DOMAIN unowned
    /\ pc \in {"notify", "finished"} \/ k < idx

\* the account a record is to be given: the one whose login the static
\* table maps the trimmed, lower-cased source label to; <<>> when the record
\* has no source, the label is not in the table or the login has no account
ExpectedOwner(ld) ==
    LET label == IF ld.source_id = False THEN <<>> ELSE ld.source_id[2]
        key   == lower(strip(label))
    IN  IF key \in DOMAIN SOURCE_TO_EMAIL /\ SOURCE_TO_EMAIL[key] \in DOMAIN res_users
        THEN <<res_users[SOURCE_TO_EMAIL[key]][1]>>
        ELSE <<>>

\* C16: a record the router's loop has dealt with got an owner write if and
\* only if its source label, trimmed and lower-cased, is in the static table
\* and the mapped login has an account; its user_id is then that account's
\* id; in every other case no write was issued and the record is unowned.
\* No write is ever issued for a record outside these.
C16_OwnerWriteIffMapped ==
    /\ \A k \in DOMAIN unowned :
         Routed(k) =>
           LET id == unowned[k].id
               ex == ExpectedOwner(unowned[k])
           IN  /\ id \in owner_writes <=> ex # <<>>
               /\ ex # <<>> =>
                    leads[id].user_id # False /\ leads[id].user_id[1] = ex[1]
               /\ ex = <<>> => leads[id].user_id = False
    /\ \A id \in owner_writes :
         \E k \in DOMAIN unowned :
            unowned[k].id = id /\ ExpectedOwner(unowned[k]) # <<>>

C16_Witness ==
    /\ pc \in {"notify", "finished"}
    /\ \E k, j \in DOMAIN unowned :
         /\ unowned[k].source_id = <<1, Instagram_raw>>
         /\ unowned[k].id \in owner_writes
         /\ leads[unowned[k].id].user_id # False
         /\ unowned[j].source_id = <<3, Event_raw>>
         /\ unowned[j].id \notin owner_writes
         /\ leads[unowned[j].id].user_id = False

\* C17: the flag write is issued for a lead only when the state read back
\* is exactly "sent"; for every other state read back the flag is left
\* unticked.
C17_TickOnlyOnSent ==
    \A k \in DOMAIN dispatch :
       /\ dispatch[k].wrote => dispatch[k].state = "sent"
       /\ dispatch[k].state # "sent" => ~leads[dispatch[k].lid].x_email_sent

\* C18: an error of a repository call made for one record of the Ownership
\* Router's loop does not end the run: a run never ends with records of the
\* selection still to be dealt with.
C18_RouterErrorIsolated ==
    pc = "aborted" => idx > Len(unowned)

\* C22: in a run every owner write of the Ownership Router is made before
\* the Notification Engine reads the leads awaiting mail: while the router
\* is at work nothing is selected or dispatched, the selected records carry
\* the owners the router wrote, a Welcome mail names the owner of its lead,
\* and "our team" stands only in Welcome mails of leads without an owner.
C22_RoutingBeforeNotification ==
    /\ pc = "assign" => ready_leads = <<>> /\ dispatch = <<>>
    /\ \A k \in DOMAIN ready_leads :
         /\ ready_leads[k].user_id = leads[ready_leads[k].id].user_id
         /\ ready_leads[k].id \in owner_writes =>
              /\ ready_leads[k].user_id # False
              /\ <<ready_leads[k].user_id[1]>> = ExpectedOwner(ready_leads[k])
    /\ \A m \in DOMAIN mails :
         mails[m].variant = "welcome" =>
           mails[m].sp = IF leads[mails[m].res_id].user_id # False
                         THEN leads[mails[m].res_id].user_id[2]
                         ELSE "our team"

\* one run routed a lead and mailed it a Welcome naming its new owner, and
\* mailed a Welcome with "our team" to a lead that routing left unowned
C22_Witness ==
    /\ pc = "finished"
    /\ \E m, n \in DOMAIN mails :
         /\ mails[m].variant = "welcome"
         /\ mails[m].res_id \in owner_writes
         /\ \E k \in DOMAIN dispatch : dispatch[k].lid = mails[m].res_id
         /\ mails[m].sp = leads[mails[m].res_id].user_id[2]
         /\ mails[n].variant = "welcome"
         /\ mails[n].sp = "our team"
         /\ leads[mails[n].res_id].user_id = False
         /\ \E k \in DOMAIN dispatch : dispatch[k].lid = mails[n].res_id

\* ------------------------------------------------------------------------
\* Properties of updated_transfer_6.py
\* ------------------------------------------------------------------------

\* the field is in the payload with a value that is not empty
IsSet(rec, k) == has(rec, k) /\ truthy(rec[k])

\* row index of the k-th payload: the buckets' rec_lists, one after another
RECURSIVE Flatten(_)
Flatten(bs) == IF bs = <<>> THEN <<>> ELSE Head(bs).rec_list \o Flatten(Tail(bs))

PayloadRow(k) == rows[Flatten(bucket)[k]]

\* number of best_match_product calls made for a raw name
MatcherCount(r) ==
    Cardinality({k \in DOMAIN matcher_calls : matcher_calls[k].raw_name = r})

\* what the importer decided about a record's product
Resolution(rec) ==
    IF has(rec, "x_product_id")
    THEN [x_product_id |-> rec["x_product_id"], x_bad_product_name |-> None]
    ELSE [x_product_id |-> None,
          x_bad_product_name |-> get(rec, "x_bad_product_name", None)]

\* C3: no payload submitted to the bulk create has both x_product_id and
\* x_bad_product_name set, whatever columns the rows carry and whatever the
\* matcher and the product lookup answer.
C3_NeverBothProductAndBadName ==
    \A c \in DOMAIN create_calls : \A k \in DOMAIN create_calls[c] :
       ~(IsSet(create_calls[c][k], "x_product_id")
         /\ IsSet(create_calls[c][k], "x_bad_product_name"))

\* C4: for every non-empty raw product name the matcher is invoked once in
\* total, however many complete rows share the name (never twice, and once
\* by the time the loop has passed its bucket), and all rows sharing the
\* name carry the same product resolution.
C4_OneMatcherCallPerRawName ==
    /\ \A b \in DOMAIN bucket :
         bucket[b].raw_name # <<>> =>
           /\ MatcherCount(bucket[b].raw_name) <= 1
           /\ b < bidx => MatcherCount(bucket[b].raw_name) = 1
           /\ b > bidx => MatcherCount(bucket[b].raw_name) = 0
    /\ ipc \in {"create", "audit", "done"} =>
         \A i \in DOMAIN rows :
            raw_name_of(rows[i]) # <<>> => MatcherCount(raw_name_of(rows[i])) = 1
    /\ \A i, j \in DOMAIN rows :
         (has(rows[i], "x_product_id") /\ rows[i]["x_product_id"] = rows[j]["x_product_id"])
           => Resolution(recs[i]) = Resolution(recs[j])

C4_Witness ==
    /\ ipc = "done"
    /\ audit
    /\ \E i, j \in DOMAIN rows :
         /\ i # j
         /\ has(rows[i], "x_product_id")
         /\ rows[i]["x_product_id"] = rows[j]["x_product_id"]
         /\ MatcherCount(raw_name_of(rows[i])) = 1

\* C5: when the matcher returns a name for which product_id_by_name finds
\* no live identifier, every row of the bucket is handled as the failure
\* case: x_product_id is removed and x_bad_product_name is the raw name.
C5_UnresolvedMatchIsFailure ==
    \A k \in DOMAIN matcher_calls :
       matcher_calls[k].lookup = "missing" =>
         \A i \in DOMAIN rows :
            raw_name_of(rows[i]) = matcher_calls[k].raw_name =>
              /\ ~has(recs[i], "x_product_id")
              /\ has(recs[i], "x_bad_product_name")
              /\ recs[i]["x_bad_product_name"] = Str(matcher_calls[k].raw_name)

\* C6: for every row whose country_id or state_id is present but does not
\* resolve by name, the field is absent from the payload submitted to the
\* bulk create, and the row is still imported.
C6_UnresolvedGeoDropped ==
    \A c \in DOMAIN create_calls :
       /\ Len(create_calls[c]) = Len(rows)
       /\ \A k \in DOMAIN create_calls[c] :
            /\ (/\ has(PayloadRow(k), "country_id")
                /\ country_id_by_name(PayloadRow(k)["country_id"].str) = None)
                 => ~has(create_calls[c][k], "country_id")
            /\ (/\ has(PayloadRow(k), "state_id")
                /\ state_id_by_name(PayloadRow(k)["state_id"].str) = None)
                 => ~has(create_calls[c][k], "state_id")

\* C9: best_match_product returns either None or a string equal to one of
\* the names of the catalogue it was given.
C9_MatchIsCatalogueNameOrNone ==
    \A k \in DOMAIN matcher_calls :
       ~matcher_calls[k].raised =>
         \/ matcher_calls[k].result = None
         \/ \E n \in DOMAIN all_products : all_products[n] = matcher_calls[k].result

\* the oracle is rate-limited, errored, or returned no usable text
OracleUnavailable(rsp) ==
    rsp.exc # "none" \/ SelectSeq(rsp.parts, has_text) = <<>>

\* C10: whenever the oracle is unavailable best_match_product returns None
\* and the run goes on with the bucket as a no-match; no oracle failure
\* propagates as an exception that aborts the run.
C10_OracleFailureDegrades ==
    /\ \A k \in DOMAIN matcher_calls :
         OracleUnavailable(matcher_calls[k].rsp) =>
           ~matcher_calls[k].raised /\ matcher_calls[k].result = None
    /\ abort_cause # "oracle"

\* C11: a complete row whose raw product name is empty (its CSV has no
\* product column) reaches the bulk create with neither x_product_id nor
\* x_bad_product_name holding a value, and the matcher is never asked
\* about it.
C11_EmptyRawNameLeftUnset ==
    /\ \A k \in DOMAIN matcher_calls : matcher_calls[k].raw_name # <<>>
    /\ \A i \in DOMAIN rows :
         raw_name_of(rows[i]) = <<>> => matcher_calls = <<>>
    /\ \A c \in DOMAIN create_calls : \A k \in DOMAIN create_calls[c] :
         raw_name_of(PayloadRow(k)) = <<>> =>
           /\ ~IsSet(create_calls[c][k], "x_product_id")
           /\ ~IsSet(create_calls[c][k], "x_bad_product_name")

C11_Witness ==
    /\ create_calls # <<>>
    /\ matcher_calls = <<>>
    /\ \E k \in DOMAIN create_calls[1] :
         /\ raw_name_of(PayloadRow(k)) = <<>>
         /\ IsSet(PayloadRow(k), "x_bad_product_name")
         /\ ~IsSet(create_calls[1][k], "x_bad_product_name")

\* C12: a run issues at most one crm.lead create call and the call carries
\* one payload for every complete row; when the call fails the run is over
\* with that single call made, no lead created and no audit file written.
C12_OneCreateCallAllOrNothing ==
    /\ Len(create_calls) <= 1
    /\ \A c \in DOMAIN create_calls :
         /\ create_calls[c] = payloads
         /\ Len(create_calls[c]) = Len(rows)
         /\ {Flatten(bucket)[k] : k \in DOMAIN create_calls[c]} = DOMAIN rows
         /\ \A k \in DOMAIN create_calls[c] :
              create_calls[c][k]["name"] = PayloadRow(k)["name"]
    /\ abort_cause = "create" =>
         /\ ipc = "aborted"
         /\ Len(create_calls) = 1
         /\ imported = <<>>
         /\ ~audit
    /\ imported # <<>> => create_calls = <<imported>> /\ abort_cause # "create"
    /\ audit => imported # <<>>

C12_Witness ==
    /\ abort_cause = "create"
    /\ ipc = "aborted"
    /\ Len(create_calls) = 1
    /\ Len(create_calls[1]) >= 2
    /\ imported = <<>>

\* the matcher was asked about the raw name and returned None
NoMatch(raw_name) ==
    \E k \in DOMAIN matcher_calls :
       /\ matcher_calls[k].raw_name = raw_name
       /\ ~matcher_calls[k].raised
       /\ matcher_calls[k].result = None

\* C15: for every complete row with a non-empty raw product name for which
\* the matcher returns no match, the payload has no x_product_id and its
\* x_bad_product_name is the row's product cell character for character.
C15_BadNameVerbatim ==
    \A c \in DOMAIN create_calls : \A k \in DOMAIN create_calls[c] :
       (raw_name_of(PayloadRow(k)) # <<>> /\ NoMatch(raw_name_of(PayloadRow(k)))) =>
          /\ ~has(create_calls[c][k], "x_product_id")
          /\ has(create_calls[c][k], "x_bad_product_name")
          /\ create_calls[c][k]["x_bad_product_name"] = PayloadRow(k)["x_product_id"]

\* the non-empty raw names of the complete rows
RawNames == {raw_name_of(rows[i]) : i \in DOMAIN rows} \ {<<>>}

\* the row in which a raw name first appears
FirstRow(n) == CHOOSE i \in DOMAIN rows :
                 /\ raw_name_of(rows[i]) = n
                 /\ \A j \in DOMAIN rows : raw_name_of(rows[j]) = n => i <= j

\* C19: the matcher is asked about the raw names in the order in which
\* they first appear among the complete rows, leaving none out on the way,
\* and every name has been asked about when the bulk create call is made.
C19_MatcherOrderBeforeCreate ==
    /\ \A a \in DOMAIN matcher_calls :
         /\ matcher_calls[a].raw_name \in RawNames
         /\ Cardinality({n \in RawNames :
                           FirstRow(n) < FirstRow(matcher_calls[a].raw_name)}) = a - 1
    /\ create_calls # <<>> => Len(matcher_calls) = Cardinality(RawNames)

C19_Witness ==
    /\ create_calls # <<>>
    /\ Len(matcher_calls) = 2
    /\ matcher_calls[1].raw_name # matcher_calls[2].raw_name
    /\ matcher_calls[1].raw_name = raw_name_of(rows[1])

\* C20: the Header Resolver never creates a duplicate schema field: over
\* the headers of a run no two field-create calls carry the same name, no
\* create call is made for a name the crm.lead schema already holds, and
\* every name for which ensure_field has returned is in _field_cache.
C20_NoDuplicateField ==
    /\ \A a, b \in DOMAIN field_creates :
         a # b => field_creates[a].name # field_creates[b].name
    /\ \A a \in DOMAIN field_creates : ~field_creates[a].existed
    /\ ensured \subseteq field_cache

\* two headers with the same slug went through the loop: one create call,
\* and none for x_bad_product_name, which the schema already held
C20_Witness ==
    /\ hpc = "done"
    /\ Len(field_creates) = 1
    /\ x_bad_product_name \in ensured
    /\ \E i, j \in DOMAIN col_map :
         /\ i # j
         /\ col_map[i].key = col_map[j].key
         /\ col_map[i].key = field_creates[1].name

UtmFields == {"campaign_id", "medium_id", "source_id"}

\* the entities of a category created since the run started
CreatedIn(mdl) == SubSeq(utm[mdl], Len(utm_before[mdl]) + 1, Len(utm[mdl]))

\* C21: every campaign, medium or source value of a row is replaced in the
\* payload by the identifier of an entity of its category that has that
\* name; a create is issued only for a name its category does not hold, so
\* no two entities of a category ever share a name, the entities that were
\* there at the start stay as they were, and at most one entity is created
\* per category and name.
C21_UtmResolvedOrCreatedOnce ==
    /\ \A mdl \in DOMAIN utm :
         /\ \A a, b \in DOMAIN utm[mdl] : a # b => utm[mdl][a] # utm[mdl][b]
         /\ Len(utm[mdl]) >= Len(utm_before[mdl])
         /\ SubSeq(utm[mdl], 1, Len(utm_before[mdl])) = utm_before[mdl]
         /\ \A a \in DOMAIN CreatedIn(mdl) :
              /\ \A b \in DOMAIN utm_before[mdl] : utm_before[mdl][b] # CreatedIn(mdl)[a]
              /\ \E i \in DOMAIN rows, f \in UtmFields :
                   /\ utm_model(f) = mdl
                   /\ has(rows[i], f)
                   /\ rows[i][f] = Str(CreatedIn(mdl)[a])
    /\ \A k \in DOMAIN payloads : \A f \in UtmFields :
         has(PayloadRow(k), f) =>
           /\ has(payloads[k], f)
           /\ \E n \in DOMAIN utm[utm_model(f)] :
                /\ payloads[k][f] = Id(n)
                /\ utm[utm_model(f)][n] = PayloadRow(k)[f].str

\* two rows name the same campaign, which the CRM did not hold: one entity
\* was created and both payloads carry its identifier
C21_Witness ==
    /\ create_calls # <<>>
    /\ Len(payloads) = 2
    /\ has(PayloadRow(1), "campaign_id")
    /\ PayloadRow(1)["campaign_id"] = PayloadRow(2)["campaign_id"]
    /\ Len(CreatedIn("utm.campaign")) = 1
    /\ PayloadRow(1)["campaign_id"] = Str(CreatedIn("utm.campaign")[1])
    /\ payloads[1]["campaign_id"] = payloads[2]["campaign_id"]
    /\ payloads[1]["campaign_id"] = Id(Len(utm["utm.campaign"]))

====
